---- MODULE Spec2Model ----
(***************************************************************************)
(* Model of the text-to-notes conversion of NotionNotesConverter           *)
(* (src/main.py): query, convert_to_notes and create_fallback_notes.       *)
(*                                                                         *)
(* A Python str is a sequence of one-character strings.  Fixed literals    *)
(* that the code only emits (note lines, st.* messages) are kept as TLA+   *)
(* strings with {} marking an interpolated value; non-ASCII pictographs    *)
(* of the source literals are left out of them.                            *)
(***************************************************************************)
EXTENDS Integers, Sequences, FiniteSets, TLC

VARIABLES raw, messy_text, prompt, pc, outcome, result, response, ret, ui, queries,
          fallbacks, logged

vars ==
    <<raw, messy_text, prompt, pc, outcome, result, response, ret, ui, queries, fallbacks, logged>>

-----------------------------------------------------------------------------
(* Program constants.                                                      *)

MinInputLen == 10

MaxInputLen == 1000

MinResponseLen == 20

SummaryItemCap == 10

KeyLineCap == 8

MinLineLen == 10

SentenceCap == 6

MinSentenceLen == 15

HttpOk == 200

HttpLoading == 503

HttpUnauthorized == 401

HttpRateLimited == 429

-----------------------------------------------------------------------------
(* Python str operations.                                                  *)

Whitespace == {" ", "\n", "\t"}

UpperCase == <<"A", "B", "C", "D", "E", "F", "G", "H", "I", "J", "K", "L", "M", "N", "O", "P", "Q", "R", "S", "T", "U", "V", "W", "X", "Y", "Z">>

LowerCase == <<"a", "b", "c", "d", "e", "f", "g", "h", "i", "j", "k", "l", "m", "n", "o", "p", "q", "r", "s", "t", "u", "v", "w", "x", "y", "z">>

SetMin(S) == CHOOSE m \in S : \A k \in S : m <= k

Min(a, b) == IF a <= b THEN a ELSE b

RECURSIVE SkipLeft(_, _)
SkipLeft(s, i) ==
    IF i <= Len(s) /\ s[i] \in Whitespace THEN SkipLeft(s, i + 1) ELSE i

RECURSIVE SkipRight(_, _)
SkipRight(s, j) ==
    IF j >= 1 /\ s[j] \in Whitespace THEN SkipRight(s, j - 1) ELSE j

\* str.strip()
strip(s) == SubSeq(s, SkipLeft(s, 1), SkipRight(s, Len(s)))

lowerChar(c) ==
    IF \E i \in 1..Len(UpperCase) : UpperCase[i] = c
    THEN LowerCase[CHOOSE i \in 1..Len(UpperCase) : UpperCase[i] = c]
    ELSE c

\* str.lower()
lower(s) == [i \in 1..Len(s) |-> lowerChar(s[i])]

\* the start positions of the occurrences of sub in s
Occurrences(s, sub) ==
    {i \in 1..(Len(s) - Len(sub) + 1) :
        s[i] = sub[1] /\ SubSeq(s, i, i + Len(sub) - 1) = sub}

\* sub in s, for a non-empty sub
Contains(s, sub) == Occurrences(s, sub) # {}

RECURSIVE SplitFrom(_, _, _, _)
SplitFrom(s, sep, start, occ) ==
    LET nxt == {i \in occ : i >= start}
    IN  IF nxt = {}
        THEN << SubSeq(s, start, Len(s)) >>
        ELSE LET p == SetMin(nxt)
             IN  << SubSeq(s, start, p - 1) >> \o SplitFrom(s, sep, p + Len(sep), occ)

\* str.split(sep): the pieces between the non-overlapping occurrences of sep
split(s, sep) == SplitFrom(s, sep, 1, Occurrences(s, sep))

\* len(str.split()): the number of maximal runs of non-whitespace
WordCount(s) ==
    Cardinality({i \in 1..Len(s) :
        s[i] \notin Whitespace /\ (i = 1 \/ s[i - 1] \in Whitespace)})

\* [p.strip() for p in parts if p.strip()]
StrippedNonEmpty(parts) ==
    SelectSeq([i \in 1..Len(parts) |-> strip(parts[i])], LAMBDA p : p # <<>>)

RECURSIVE Digits(_)
Digits(n) ==
    LET d == <<"0", "1", "2", "3", "4", "5", "6", "7", "8", "9">>
    IN  IF n < 10 THEN << d[n + 1] >> ELSE Digits(n \div 10) \o << d[(n % 10) + 1] >>

-----------------------------------------------------------------------------
(* create_fallback_notes.  A note is the sequence of its lines; a line is  *)
(* the literal of the source with its interpolated values.                 *)

NoteLine(lit, num, txt) == [lit |-> lit, num |-> num, txt |-> txt]

action_keywords ==
    << <<"n", "e", "e", "d">>, <<"s", "h", "o", "u", "l", "d">>, <<"m", "u", "s", "t">>, <<"t", "o", "d", "o">>, <<"a", "c", "t", "i", "o", "n">>, <<"f", "o", "l", "l", "o", "w", " ", "u", "p">>, <<"c", "o", "m", "p", "l", "e", "t", "e">> >>

\* the keyword test without lower()
HasActionKeyword_CaseSensitive(text) ==
    \E k \in 1..Len(action_keywords) : Contains(text, action_keywords[k])

HasActionKeyword(text) ==
    \E k \in 1..Len(action_keywords) : Contains(lower(text), action_keywords[k])

SummaryLines(text, lines, sentences) ==
    << NoteLine("# Structured Notes\n\n", 0, <<>>),
       NoteLine("## Summary\n", 0, <<>>),
       NoteLine("- Content contains {} key points\n", Len(sentences), <<>>),
       NoteLine("- Organized into {} main items\n", Min(Len(lines), SummaryItemCap), <<>>),
       NoteLine("- Word count: approximately {} words\n\n", WordCount(text), <<>>) >>

KeyPointLines(lines, sentences) ==
    << NoteLine("## Key Points\n\n", 0, <<>>) >> \o
    ( IF lines # <<>>
      THEN SelectSeq([i \in 1..Min(Len(lines), KeyLineCap) |->
                         NoteLine("{}.** {}\n\n", i, lines[i])],
                     LAMBDA l : Len(l.txt) > MinLineLen)
      ELSE SelectSeq([i \in 1..Min(Len(sentences), SentenceCap) |->
                         NoteLine("- {}.\n", 0, strip(sentences[i]))],
                     LAMBDA l : Len(l.txt) > MinSentenceLen) )

ActionItemLines(text) ==
    IF HasActionKeyword(text)
    THEN << NoteLine("\n## Action Items\n", 0, <<>>),
            NoteLine("- Review and organize the above points\n", 0, <<>>),
            NoteLine("- Follow up on any mentioned tasks\n", 0, <<>>),
            NoteLine("- Add more details where needed\n", 0, <<>>) >>
    ELSE <<>>

\* the note of the except branch; no operation of the try body raises on a str
LastResortNotes(text) ==
    << NoteLine("# Notes\n\n## Content\n\n{}\n\n*Note: Automatic structuring failed, showing original content.*", 0, text) >>

\* the synthesizer failing on a text with no line, and so taking its except branch
create_fallback_notes_FailsOnBlank(text) ==
    LET lines == StrippedNonEmpty(split(text, << "\n" >>))
        sentences == StrippedNonEmpty(split(text, << "." >>))
    IN  IF lines = <<>>
        THEN LastResortNotes(text)
        ELSE SummaryLines(text, lines, sentences)
                 \o KeyPointLines(lines, sentences)
                 \o ActionItemLines(text)

create_fallback_notes(text) ==
    LET lines == StrippedNonEmpty(split(text, << "\n" >>))
        sentences == StrippedNonEmpty(split(text, << "." >>))
    IN  SummaryLines(text, lines, sentences)
            \o KeyPointLines(lines, sentences)
            \o ActionItemLines(text)

-----------------------------------------------------------------------------
(* The values response.json() can produce, and str() / repr() of them.     *)
(* A dict is the sequence of its items, in insertion order.                *)

JNull == [t |-> "null"]

JNum(n) == [t |-> "num", n |-> n]

JStr(s) == [t |-> "str", s |-> s]

JList(items) == [t |-> "list", items |-> items]

JDict(pairs) == [t |-> "dict", pairs |-> pairs]

Item(k, v) == [k |-> k, v |-> v]

KeyError == <<"e", "r", "r", "o", "r">>

KeyGeneratedText == <<"g", "e", "n", "e", "r", "a", "t", "e", "d", "_", "t", "e", "x", "t">>

HasKey(d, k) == \E i \in 1..Len(d.pairs) : d.pairs[i].k = k

Get(d, k) == d.pairs[CHOOSE i \in 1..Len(d.pairs) : d.pairs[i].k = k].v

\* repr() of a str whose characters need no escape but the newline
ReprStr(s) ==
    LET esc(c) == IF c = "\n" THEN << "\\", "n" >> ELSE << c >>
        RECURSIVE cat(_)
        cat(i) == IF i > Len(s) THEN <<>> ELSE esc(s[i]) \o cat(i + 1)
    IN  << "'" >> \o cat(1) \o << "'" >>

RECURSIVE PyRepr(_)
PyRepr(v) ==
    LET RECURSIVE join(_, _)
        join(parts, i) ==
            IF i > Len(parts) THEN <<>>
            ELSE (IF i > 1 THEN << ",", " " >> ELSE <<>>) \o parts[i] \o join(parts, i + 1)
    IN  CASE v.t = "null" -> <<"N", "o", "n", "e">>
          [] v.t = "num"  -> Digits(v.n)
          [] v.t = "str"  -> ReprStr(v.s)
          [] v.t = "list" ->
                << "[" >> \o join([i \in 1..Len(v.items) |-> PyRepr(v.items[i])], 1) \o << "]" >>
          [] v.t = "dict" ->
                << "{" >> \o join([i \in 1..Len(v.pairs) |->
                                     ReprStr(v.pairs[i].k) \o << ":", " " >> \o PyRepr(v.pairs[i].v)], 1)
                       \o << "}" >>

\* str(v)
PyStr(v) == IF v.t = "str" THEN v.s ELSE PyRepr(v)

-----------------------------------------------------------------------------
(* query: one requests.post, every outcome classified into a dict.         *)

ErrorDict(msg) == JDict(<< Item(KeyError, JStr(msg)) >>)

MsgLoading == <<"M", "o", "d", "e", "l", " ", "i", "s", " ", "c", "u", "r", "r", "e", "n", "t", "l", "y", " ", "l", "o", "a", "d", "i", "n", "g", ".", " ", "P", "l", "e", "a", "s", "e", " ", "t", "r", "y", " ", "a", "g", "a", "i", "n", " ", "i", "n", " ", "a", " ", "f", "e", "w", " ", "m", "o", "m", "e", "n", "t", "s", ".">>

MsgInvalidToken == <<"I", "n", "v", "a", "l", "i", "d", " ", "A", "P", "I", " ", "t", "o", "k", "e", "n", ".", " ", "P", "l", "e", "a", "s", "e", " ", "c", "h", "e", "c", "k", " ", "y", "o", "u", "r", " ", "H", "u", "g", "g", "i", "n", "g", " ", "F", "a", "c", "e", " ", "A", "P", "I", " ", "t", "o", "k", "e", "n", ".">>

MsgRateLimit == <<"R", "a", "t", "e", " ", "l", "i", "m", "i", "t", " ", "e", "x", "c", "e", "e", "d", "e", "d", ".", " ", "P", "l", "e", "a", "s", "e", " ", "w", "a", "i", "t", " ", "b", "e", "f", "o", "r", "e", " ", "m", "a", "k", "i", "n", "g", " ", "a", "n", "o", "t", "h", "e", "r", " ", "r", "e", "q", "u", "e", "s", "t", ".">>

MsgTimeout == <<"R", "e", "q", "u", "e", "s", "t", " ", "t", "i", "m", "e", "d", " ", "o", "u", "t", ".", " ", "P", "l", "e", "a", "s", "e", " ", "t", "r", "y", " ", "a", "g", "a", "i", "n", ".">>

MsgConnection == <<"C", "o", "n", "n", "e", "c", "t", "i", "o", "n", " ", "e", "r", "r", "o", "r", ".", " ", "P", "l", "e", "a", "s", "e", " ", "c", "h", "e", "c", "k", " ", "y", "o", "u", "r", " ", "i", "n", "t", "e", "r", "n", "e", "t", " ", "c", "o", "n", "n", "e", "c", "t", "i", "o", "n", ".">>

MsgStatusPrefix == <<"A", "P", "I", " ", "r", "e", "q", "u", "e", "s", "t", " ", "f", "a", "i", "l", "e", "d", " ", "w", "i", "t", "h", " ", "s", "t", "a", "t", "u", "s", " ">>

MsgRequestPrefix == <<"R", "e", "q", "u", "e", "s", "t", " ", "f", "a", "i", "l", "e", "d", ":", " ">>

MsgUnexpectedPrefix == <<"U", "n", "e", "x", "p", "e", "c", "t", "e", "d", " ", "e", "r", "r", "o", "r", ":", " ">>

\* query without the status check: the body whatever the status
query_IgnoresStatus(o) ==
    CASE o.kind = "response" ->
            IF o.body.t = "undecodable"
            THEN ErrorDict(MsgRequestPrefix \o o.body.msg)
            ELSE o.body
      [] o.kind = "Timeout" -> ErrorDict(MsgTimeout)
      [] o.kind = "ConnectionError" -> ErrorDict(MsgConnection)
      [] o.kind = "RequestException" -> ErrorDict(MsgRequestPrefix \o o.msg)
      [] o.kind = "Exception" -> ErrorDict(MsgUnexpectedPrefix \o o.msg)

\* o is what requests.post did: an exception of one of four classes, or a
\* response with its status_code, its text and what its json() gives (a value,
\* or a decoding error, which requests raises as a RequestException)
query(o) ==
    CASE o.kind = "response" ->
            IF o.status = HttpOk
            THEN IF o.body.t = "undecodable"
                 THEN ErrorDict(MsgRequestPrefix \o o.body.msg)
                 ELSE o.body
            ELSE IF o.status = HttpLoading THEN ErrorDict(MsgLoading)
            ELSE IF o.status = HttpUnauthorized THEN ErrorDict(MsgInvalidToken)
            ELSE IF o.status = HttpRateLimited THEN ErrorDict(MsgRateLimit)
            ELSE ErrorDict(MsgStatusPrefix \o Digits(o.status) \o << ":", " " >> \o o.text)
      [] o.kind = "Timeout" -> ErrorDict(MsgTimeout)
      [] o.kind = "ConnectionError" -> ErrorDict(MsgConnection)
      [] o.kind = "RequestException" -> ErrorDict(MsgRequestPrefix \o o.msg)
      [] o.kind = "Exception" -> ErrorDict(MsgUnexpectedPrefix \o o.msg)

-----------------------------------------------------------------------------
(* The steps of convert_to_notes.                                          *)

UiMsg(level, lit, arg) == [level |-> level, lit |-> lit, arg |-> arg]

TruncationWarning ==
    UiMsg("warning", "Text was truncated to 1000 characters to avoid API limits.", <<>>)

IncompleteWarning ==
    UiMsg("warning", "AI response seems incomplete. Using structured fallback.", <<>>)

LoadingTip ==
    UiMsg("info", "*Tip:* Try switching to a different model or wait a few minutes.", <<>>)

ApiError(error_msg) == UiMsg("error", "*API Error:* {}", error_msg)

Ellipsis == << ".", ".", "." >>

OutputMarker == <<"O", "u", "t", "p", "u", "t", ":">>

InputMarker == <<"I", "n", "p", "u", "t", ":">>

StructuralMarkers == {"#", "*", "-"}

\* the length test without strip()
InputTooShort_NoStrip(text) == Len(text) < MinInputLen

\* not messy_text or len(messy_text.strip()) < 10
InputTooShort(text) == IF text = <<>> THEN TRUE ELSE Len(strip(text)) < MinInputLen

\* the length test of the truncation with >= for >
NeedsTruncation_OffByOne(text) == Len(text) >= MaxInputLen

NeedsTruncation(text) == Len(text) > MaxInputLen

Truncate(text) ==
    IF NeedsTruncation(text) THEN SubSeq(text, 1, MaxInputLen) \o Ellipsis ELSE text

conversion_prompt(text) ==
    [pre |-> "Convert the following messy text into clean, structured Notion-style notes with proper headings, bullet points, and formatting:\n\nInput: ",
     text |-> text,
     post |-> "\n\nOutput: "]

\* "error" in result: "yes", "no", or "raise" where Python raises TypeError
ErrorIn(r) ==
    CASE r.t = "dict" -> IF HasKey(r, KeyError) THEN "yes" ELSE "no"
      [] r.t = "list" -> IF \E i \in 1..Len(r.items) : r.items[i] = JStr(KeyError)
                         THEN "yes" ELSE "no"
      [] r.t = "str"  -> IF Contains(r.s, KeyError) THEN "yes" ELSE "no"
      [] OTHER        -> "raise"

\* result["error"] is defined only on a dict (a list or a str raises TypeError)
\* and error_msg.lower() only on a str (anything else raises AttributeError)
ErrorPathRaises(r) ==
    IF ErrorIn(r) = "raise" THEN TRUE
    ELSE IF ErrorIn(r) = "no" THEN FALSE
    ELSE IF r.t # "dict" THEN TRUE
    ELSE Get(r, KeyError).t # "str"

MentionsLoading(error_msg) == Contains(lower(error_msg), <<"l", "o", "a", "d", "i", "n", "g">>)

\* the extraction with an unrecognized body treated as a failure
ExtractGenerated_RejectsUnrecognized(r) ==
    IF r.t = "list" /\ Len(r.items) > 0
    THEN IF r.items[1].t = "dict"
         THEN [raised |-> FALSE,
               v |-> IF HasKey(r.items[1], KeyGeneratedText)
                     THEN Get(r.items[1], KeyGeneratedText) ELSE JStr(<<>>)]
         ELSE [raised |-> TRUE, v |-> JNull]
    ELSE IF r.t = "dict" /\ HasKey(r, KeyGeneratedText)
    THEN [raised |-> FALSE, v |-> Get(r, KeyGeneratedText)]
    ELSE [raised |-> TRUE, v |-> JNull]

\* lines 189-194: the generated text, or the exception of result[0].get
ExtractGenerated(r) ==
    IF r.t = "list" /\ Len(r.items) > 0
    THEN IF r.items[1].t = "dict"
         THEN [raised |-> FALSE,
               v |-> IF HasKey(r.items[1], KeyGeneratedText)
                     THEN Get(r.items[1], KeyGeneratedText) ELSE JStr(<<>>)]
         ELSE [raised |-> TRUE, v |-> JNull]
    ELSE IF r.t = "dict" /\ HasKey(r, KeyGeneratedText)
    THEN [raised |-> FALSE, v |-> Get(r, KeyGeneratedText)]
    ELSE [raised |-> FALSE, v |-> JStr(PyStr(r))]

Last(s) == s[Len(s)]

\* lines 197-204, on a str
CleanResponse(generated_text) ==
    LET afterOutput ==
            IF Contains(generated_text, OutputMarker)
            THEN strip(Last(split(generated_text, OutputMarker)))
            ELSE strip(generated_text)
    IN  IF Contains(afterOutput, InputMarker)
        THEN strip(Last(split(afterOutput, InputMarker)))
        ELSE afterOutput

\* the quality test with <= for <
Rejected_OffByOne(resp) ==
    IF Len(resp) <= MinResponseLen THEN TRUE
    ELSE ~ \E i \in 1..Len(resp) : resp[i] \in StructuralMarkers

\* line 207
Rejected(resp) ==
    IF Len(resp) < MinResponseLen THEN TRUE
    ELSE ~ \E i \in 1..Len(resp) : resp[i] \in StructuralMarkers

\* lines 188-204 raise (and line 213 catches) when result[0] has no get, or
\* the generated text is no str
ProcessingRaises(r) ==
    IF ExtractGenerated(r).raised THEN TRUE ELSE ExtractGenerated(r).v.t # "str"

-----------------------------------------------------------------------------
(* Bounds, and the inputs and remote outcomes drawn within them.           *)

MaxPad == 1

MaxGenChunks == 3

Pad(n) == [i \in 1..n |-> " "]

Fill(n) == [i \in 1..n |-> "x"]

Core == <<"N", "e", "e", "d", " ", "a", ".", "\n">>

\* a text of n characters with no whitespace at either end
Body(n) == IF n < Len(Core) THEN Fill(n) ELSE Core \o Fill(n - Len(Core))

InputLens == {0, 1, MinInputLen - 1, MinInputLen, MaxInputLen, MaxInputLen + 1}

Inputs ==
    {Pad(l) \o Body(n) \o Pad(r) : l \in 0..MaxPad, r \in 0..1, n \in InputLens}
        \cup {Pad(MinInputLen)}

RECURSIVE ChunkTexts(_, _)
ChunkTexts(chunks, k) ==
    IF k = 0 THEN {<<>>}
    ELSE LET T == ChunkTexts(chunks, k - 1) IN T \cup {t \o c : t \in T, c \in chunks}

X19 == Fill(MinResponseLen - 1)

\* MinResponseLen characters with a structural marker, and without one
G20 == X19 \o << "#" >>

X20 == Fill(MinResponseLen)

GenChunks == {OutputMarker, InputMarker, << " " >>, G20, X20}

GenTexts ==
    ChunkTexts(GenChunks, MaxGenChunks)
        \cup {X19 \o << "-" >>, X19 \o << "*" >>, Fill(MinResponseLen - 2) \o << "#" >>,
              X20 \o << "-" >>, << "#" >>}

SampleTexts == {<<>>, G20, X20, KeyError \o << " " >> \o X19 \o << "-" >>}

KeyText == <<"t", "e", "x", "t">>

Generated(g) == JDict(<< Item(KeyGeneratedText, JStr(g)) >>)

Bodies ==
    {Generated(g) : g \in GenTexts}
        \cup {JList(<< Generated(g) >>) : g \in GenTexts}
        \cup {JList(<< Generated(g), JStr(KeyError) >>) : g \in SampleTexts}
        \cup {JStr(g) : g \in SampleTexts}
        \cup {JDict(<< Item(KeyText, JStr(g)) >>) : g \in SampleTexts}
        \cup {JList(<< JDict(<< Item(KeyText, JStr(g)) >>) >>) : g \in SampleTexts}
        \cup {JDict(<< Item(KeyError, JStr(KeyText)), Item(KeyGeneratedText, JStr(g)) >>) :
                g \in SampleTexts}
        \cup {JNull, JNum(5), JList(<<>>), JList(<< JNum(5) >>), JList(<< JStr(KeyText) >>),
              JList(<< JNull >>), Generated(<<>>), JDict(<<>>),
              JDict(<< Item(KeyGeneratedText, JNull) >>),
              JDict(<< Item(KeyGeneratedText, JNum(5)) >>),
              JDict(<< Item(KeyGeneratedText, JList(<<>>)) >>),
              JDict(<< Item(KeyError, JNum(5)) >>),
              JDict(<< Item(KeyError, JNull) >>),
              ErrorDict(MsgLoading),
              [t |-> "undecodable", msg |-> <<"E", "x", "p", "e", "c", "t", "i", "n", "g", " ", "v", "a", "l", "u", "e">>]}

ErrorStatuses == {HttpLoading, HttpUnauthorized, HttpRateLimited, 201, 404, 500}

ResponseTexts == {<<>>, <<"M", "o", "d", "e", "l", " ", "l", "o", "a", "d", "i", "n", "g">>, <<"N", "o", "t", " ", "F", "o", "u", "n", "d">>}

Response(status, text, body) ==
    [kind |-> "response", status |-> status, text |-> text, body |-> body]

Raises(kind, msg) == [kind |-> kind, msg |-> msg]

Outcomes ==
    {Raises(k, <<>>) : k \in {"Timeout", "ConnectionError"}}
        \cup {Raises(k, m) : k \in {"RequestException", "Exception"},
                             m \in {<<"b", "o", "o", "m">>, <<"s", "t", "i", "l", "l", " ", "l", "o", "a", "d", "i", "n", "g">>}}
        \cup {Response(s, t, JNull) : s \in ErrorStatuses, t \in ResponseTexts}
        \cup {Response(HttpOk, <<>>, b) : b \in Bodies}

-----------------------------------------------------------------------------
(* One conversion: the caller's text, then convert_to_notes step by step.  *)

NoOutcome == [kind |-> "none"]

NoResult == [t |-> "none"]

NoRet == [site |-> "none", text |-> <<>>, notes |-> <<>>]

Returned(site, text, notes) == [site |-> site, text |-> text, notes |-> notes]

Init ==
    /\ raw \in Inputs
    /\ messy_text = raw
    /\ prompt = conversion_prompt(<<>>)
    /\ pc = "Start"
    /\ outcome = NoOutcome
    /\ result = NoResult
    /\ response = <<>>
    /\ ret = NoRet
    /\ ui = <<>>
    /\ queries = 0
    /\ fallbacks = 0
    /\ logged = 0

\* lines 144-151
Sanitize ==
    /\ pc = "Start"
    /\ IF InputTooShort(messy_text)
       THEN /\ pc' = "Done"
            /\ ret' = Returned("146", <<>>,
                   << NoteLine("*Error:* Please provide more text content (at least 10 characters).", 0, <<>>) >>)
            /\ UNCHANGED <<messy_text, ui>>
       ELSE /\ pc' = "Sanitized"
            /\ messy_text' = Truncate(messy_text)
            /\ ui' = IF NeedsTruncation(messy_text) THEN Append(ui, TruncationWarning) ELSE ui
            /\ ret' = ret
    /\ UNCHANGED <<raw, prompt, outcome, result, response, queries, fallbacks, logged>>

\* lines 153-174
Query ==
    /\ pc = "Sanitized"
    /\ prompt' = conversion_prompt(messy_text)
    /\ \E o \in Outcomes : outcome' = o /\ result' = query(o)
    /\ queries' = queries + 1
    /\ pc' = "RemoteAttempted"
    /\ UNCHANGED <<raw, messy_text, response, ret, ui, fallbacks, logged>>

\* lines 177-178 and 182, where the membership test, the indexing or lower() raises
ErrorCheckRaises ==
    /\ pc = "RemoteAttempted"
    /\ ErrorPathRaises(result)
    /\ ui' = IF ErrorIn(result) = "yes" /\ result.t = "dict"
             THEN Append(ui, ApiError(PyStr(Get(result, KeyError))))
             ELSE ui
    /\ pc' = "Raised"
    /\ ret' = Returned("raise", <<>>, <<>>)
    /\ UNCHANGED <<raw, messy_text, prompt, outcome, result, response, queries, fallbacks, logged>>

\* lines 177-185
HandleApiError ==
    /\ pc = "RemoteAttempted"
    /\ ~ ErrorPathRaises(result)
    /\ ErrorIn(result) = "yes"
    /\ LET error_msg == Get(result, KeyError).s
       IN  ui' = ui \o << ApiError(error_msg) >>
                    \o (IF MentionsLoading(error_msg) THEN << LoadingTip >> ELSE <<>>)
    /\ fallbacks' = fallbacks + 1
    /\ ret' = Returned("185", <<>>, create_fallback_notes(messy_text))
    /\ pc' = "FallbackUsed"
    /\ UNCHANGED <<raw, messy_text, prompt, outcome, result, response, queries, logged>>

\* lines 188-204
Validate ==
    /\ pc = "RemoteAttempted"
    /\ ~ ErrorPathRaises(result)
    /\ ErrorIn(result) = "no"
    /\ ~ ProcessingRaises(result)
    /\ response' = CleanResponse(ExtractGenerated(result).v.s)
    /\ pc' = "Validated"
    /\ UNCHANGED <<raw, messy_text, prompt, outcome, result, ret, ui, queries, fallbacks, logged>>

\* lines 188-204 raising, and the handler of lines 213-215
ProcessingFails ==
    /\ pc = "RemoteAttempted"
    /\ ~ ErrorPathRaises(result)
    /\ ErrorIn(result) = "no"
    /\ ProcessingRaises(result)
    /\ logged' = logged + 1
    /\ fallbacks' = fallbacks + 1
    /\ ret' = Returned("215", <<>>, create_fallback_notes(messy_text))
    /\ pc' = "FallbackUsed"
    /\ UNCHANGED <<raw, messy_text, prompt, outcome, result, response, ui, queries>>

\* a rejection that asks the model again
Reject_Retries ==
    /\ pc = "Validated"
    /\ Rejected(response)
    /\ ui' = Append(ui, IncompleteWarning)
    /\ pc' = "Sanitized"
    /\ UNCHANGED <<raw, messy_text, prompt, outcome, result, response, ret, queries, fallbacks, logged>>

\* lines 207-209
Reject ==
    /\ pc = "Validated"
    /\ Rejected(response)
    /\ ui' = Append(ui, IncompleteWarning)
    /\ fallbacks' = fallbacks + 1
    /\ ret' = Returned("209", <<>>, create_fallback_notes(messy_text))
    /\ pc' = "FallbackUsed"
    /\ UNCHANGED <<raw, messy_text, prompt, outcome, result, response, queries, logged>>

\* the return of the generated text as it came, not of the cleaned response
Accept_ReturnsGenerated ==
    /\ pc = "Validated"
    /\ ~ Rejected(response)
    /\ ret' = Returned("211", ExtractGenerated(result).v.s, <<>>)
    /\ pc' = "Done"
    /\ UNCHANGED <<raw, messy_text, prompt, outcome, result, response, ui, queries, fallbacks, logged>>

\* line 211
Accept ==
    /\ pc = "Validated"
    /\ ~ Rejected(response)
    /\ ret' = Returned("211", response, <<>>)
    /\ pc' = "Done"
    /\ UNCHANGED <<raw, messy_text, prompt, outcome, result, response, ui, queries, fallbacks, logged>>

\* the fallback note goes back to the caller
Finish ==
    /\ pc = "FallbackUsed"
    /\ pc' = "Done"
    /\ UNCHANGED <<raw, messy_text, prompt, outcome, result, response, ret, ui, queries, fallbacks, logged>>

Next ==
    \/ Sanitize
    \/ Query
    \/ ErrorCheckRaises
    \/ HandleApiError
    \/ Validate
    \/ ProcessingFails
    \/ Reject
    \/ Accept
    \/ Finish

Spec == Init /\ [][Next]_vars

-----------------------------------------------------------------------------
(* create_fallback_notes on its own, called with any str.                  *)

MaxFbChunks == 3

MaxLines == 11

FbChunks ==
    {<< " " >>, << "\n" >>, << "." >>, <<"f", "o", "l", "l", "o", "w">>, <<"u", "p">>, <<"N", "e", "e", "d">>, <<"a", " ", "p", "l", "a", "i", "n", " ", "l", "i", "n", "e", " ", "o", "f", " ", "t", "e", "x", "t">>}

\* k lines, the i-th of i characters
RECURSIVE NumberedLines(_)
NumberedLines(k) ==
    IF k = 0 THEN <<>> ELSE NumberedLines(k - 1) \o Fill(k) \o << "\n" >>

FallbackInputs ==
    ChunkTexts(FbChunks, MaxFbChunks)
        \cup {NumberedLines(k) : k \in 1..MaxLines}
        \cup {action_keywords[k] : k \in 1..Len(action_keywords)}
        \cup {<<"T", "O", "D", "O">>, <<"S", "h", "o", "u", "l", "d", ".">>, <<"r", "e", "A", "C", "T", "I", "O", "N">>, <<"i", "n", "c", "o", "m", "p", "l", "e", "t", "e", "\n", "M", "U", "S", "T", "A", "R", "D">>,
              <<"s", "h", "o", "u", "l", " ", "d">>, <<"t", "o", " ", "d", "o">>, <<"x">>, <<"A", " ", "s", "e", "n", "t", "e", "n", "c", "e", " ", "o", "f", " ", "w", "o", "r", "d", "s", ".", " ", "A", "n", "o", "t", "h", "e", "r", " ", "o", "n", "e", " ", "h", "e", "r", "e">>}

InitFallback ==
    /\ raw \in FallbackInputs
    /\ messy_text = raw
    /\ prompt = conversion_prompt(<<>>)
    /\ pc = "FallbackStart"
    /\ outcome = NoOutcome
    /\ result = NoResult
    /\ response = <<>>
    /\ ret = NoRet
    /\ ui = <<>>
    /\ queries = 0
    /\ fallbacks = 0
    /\ logged = 0

\* lines 217-252
CallFallback ==
    /\ pc = "FallbackStart"
    /\ fallbacks' = fallbacks + 1
    /\ ret' = Returned("252", <<>>, create_fallback_notes(messy_text))
    /\ pc' = "FallbackDone"
    /\ UNCHANGED <<raw, messy_text, prompt, outcome, result, response, ui, queries, logged>>

NextFallback == CallFallback

SpecFallback == InitFallback /\ [][NextFallback]_vars

-----------------------------------------------------------------------------
(* Vocabulary of the properties.                                           *)

TrimmedLen(text) == Len(strip(text))

\* the return statement taken tells where the returned text came from
Provenance ==
    CASE ret.site = "211" -> "Model"
      [] ret.site \in {"185", "209", "215", "252"} -> "Fallback"
      [] ret.site = "146" -> "InputError"
      [] OTHER -> "None"

HasSummary(notes) == \E i \in 1..Len(notes) : notes[i].lit = "## Summary\n"

TruncationFlagged == \E i \in 1..Len(ui) : ui[i] = TruncationWarning

HttpOkBody ==
    /\ outcome.kind = "response"
    /\ outcome.status = HttpOk
    /\ outcome.body.t # "undecodable"

\* the remote call ended in an error: an exception of requests.post or of
\* json(), or a status other than 200
RemoteFailed ==
    /\ outcome.kind # "none"
    /\ ~ HttpOkBody

HasMarker(text) == \E i \in 1..Len(text) : text[i] \in {"#", "*", "-"}

-----------------------------------------------------------------------------
(* C1: for every input of trimmed length at least 10 and every outcome of  *)
(* the remote call, convert_to_notes returns a note, the accepted model    *)
(* text or the fallback note, and no exception escapes it.                 *)
(* The code breaks this: see C1_ExceptionEscapes.                          *)

C1_AlwaysReturnsNote ==
    TrimmedLen(raw) >= MinInputLen =>
        /\ pc # "Raised"
        /\ pc = "Done" => Provenance \in {"Model", "Fallback"}

\* an HTTP 200 body of null has made line 177 raise TypeError
C1_ExceptionEscapes ==
    /\ pc = "Raised"
    /\ TrimmedLen(raw) >= MinInputLen
    /\ HttpOkBody
    /\ outcome.body = JNull

-----------------------------------------------------------------------------
(* C2: an input of trimmed length below 10 makes the conversion return the *)
(* too-short error, and neither query nor create_fallback_notes is called. *)

C2_TooShortStops ==
    TrimmedLen(raw) < MinInputLen =>
        /\ queries = 0
        /\ fallbacks = 0
        /\ pc \in {"Start", "Done"}
        /\ pc = "Done" => ret.site = "146"

\* a text of 10 characters and more, too short only once trimmed, was refused
C2_Witness ==
    /\ pc = "Done"
    /\ ret.site = "146"
    /\ Len(raw) >= MinInputLen
    /\ TrimmedLen(raw) \in 1..(MinInputLen - 1)

-----------------------------------------------------------------------------
(* C3: a remote call that ends in an error is no hard failure: the error   *)
(* message is shown (for HTTP 503 it mentions loading), the fallback       *)
(* synthesizer runs once on the sanitized text, and its note, which has a  *)
(* Summary section, is what the conversion returns.                        *)

C3_RemoteErrorFallsBack ==
    (RemoteFailed /\ pc # "RemoteAttempted") =>
        /\ pc \in {"FallbackUsed", "Done"}
        /\ ret.site = "185"
        /\ Provenance = "Fallback"
        /\ fallbacks = 1
        /\ ret.notes = create_fallback_notes(messy_text)
        /\ HasSummary(ret.notes)
        /\ \E i \in 1..Len(ui) :
              /\ ui[i].level = "error"
              /\ ui[i].arg = Get(result, KeyError).s
              /\ (outcome.kind = "response" /\ outcome.status = HttpLoading)
                    => Contains(lower(ui[i].arg), <<"l", "o", "a", "d", "i", "n", "g">>)

\* HTTP 503 on a truncated text ended in the fallback note
C3_Witness ==
    /\ pc = "Done"
    /\ outcome.kind = "response"
    /\ outcome.status = HttpLoading
    /\ ret.site = "185"
    /\ Len(raw) > MaxInputLen

-----------------------------------------------------------------------------
(* C4: HTTP 200 with generated text whose candidate the validator accepts  *)
(* ends with the candidate returned as the model's text, without the       *)
(* fallback.  As claimed, no warning at all is emitted: C4_NoWarningAtAll. *)
(* As amended (C4_AcceptedIsModel): the only message emitted is the        *)
(* truncation warning, emitted exactly when the input is longer than 1000  *)
(* characters.  The validator sees a candidate only when line 177 found no *)
(* error member in the body.                                               *)

HasGeneratedText(b) ==
    \/ /\ b.t = "dict"
       /\ HasKey(b, KeyGeneratedText)
       /\ Get(b, KeyGeneratedText).t = "str"
    \/ /\ b.t = "list"
       /\ Len(b.items) > 0
       /\ b.items[1].t = "dict"
       /\ HasKey(b.items[1], KeyGeneratedText)
       /\ Get(b.items[1], KeyGeneratedText).t = "str"

GeneratedTextOf(b) ==
    IF b.t = "dict" THEN Get(b, KeyGeneratedText).s ELSE Get(b.items[1], KeyGeneratedText).s

\* "error" is no key of the object, no element of the list, no part of the string
NoErrorMember(b) ==
    CASE b.t = "dict" -> ~ HasKey(b, KeyError)
      [] b.t = "list" -> ~ \E i \in 1..Len(b.items) : b.items[i] = JStr(KeyError)
      [] b.t = "str"  -> ~ Contains(b.s, KeyError)

AcceptedText(b) ==
    /\ HasGeneratedText(b)
    /\ NoErrorMember(b)
    /\ Len(CleanResponse(GeneratedTextOf(b))) >= MinResponseLen
    /\ HasMarker(CleanResponse(GeneratedTextOf(b)))

C4_NoWarningAtAll ==
    (HttpOkBody /\ AcceptedText(outcome.body) /\ pc = "Done") =>
        /\ ret.site = "211"
        /\ ret.text = CleanResponse(GeneratedTextOf(outcome.body))
        /\ fallbacks = 0
        /\ ui = <<>>

C4_AcceptedIsModel ==
    (HttpOkBody /\ AcceptedText(outcome.body) /\ pc # "RemoteAttempted") =>
        /\ pc \in {"Validated", "Done"}
        /\ fallbacks = 0
        /\ logged = 0
        /\ ui = IF Len(raw) > MaxInputLen THEN << TruncationWarning >> ELSE <<>>
        /\ pc = "Done" =>
              /\ ret.site = "211"
              /\ ret.text = CleanResponse(GeneratedTextOf(outcome.body))

\* a text of more than 1000 characters was converted by the model, and the
\* generated text carried a marker and surrounding whitespace to clean away
C4_Witness ==
    /\ pc = "Done"
    /\ ret.site = "211"
    /\ Len(raw) > MaxInputLen
    /\ ui = << TruncationWarning >>
    /\ HasGeneratedText(outcome.body)
    /\ ret.text # GeneratedTextOf(outcome.body)

-----------------------------------------------------------------------------
(* C5: the text sanitization hands on.  As claimed (C5_TruncatesTrimmed):  *)
(* a trimmed length above 1000 gives the first 1000 characters of the      *)
(* trimmed text and the ellipsis, flagged, and a trimmed length of at most *)
(* 1000 gives no truncation.  As amended (C5_TruncatesRaw): the length     *)
(* tested and the characters kept are those of the text as given, not      *)
(* trimmed; the result is the text of the prompt and of the fallback.      *)

C5_TruncatesTrimmed ==
    (pc # "Start" /\ TrimmedLen(raw) >= MinInputLen) =>
        IF TrimmedLen(raw) > MaxInputLen
        THEN /\ messy_text = SubSeq(strip(raw), 1, MaxInputLen) \o Ellipsis
             /\ TruncationFlagged
        ELSE /\ messy_text \in {raw, strip(raw)}
             /\ ~ TruncationFlagged

C5_TruncatesRaw ==
    (pc # "Start" /\ TrimmedLen(raw) >= MinInputLen) =>
        /\ IF Len(raw) > MaxInputLen
           THEN /\ messy_text = SubSeq(raw, 1, MaxInputLen) \o Ellipsis
                /\ TruncationFlagged
           ELSE /\ messy_text = raw
                /\ ~ TruncationFlagged
        /\ pc # "Sanitized" => prompt.text = messy_text
        /\ Provenance = "Fallback" => ret.notes = create_fallback_notes(messy_text)

\* a text longer than 1000 characters only by its leading blank was truncated,
\* and the fallback note was made of the truncated text
C5_Witness ==
    /\ pc = "Done"
    /\ Provenance = "Fallback"
    /\ Len(raw) > MaxInputLen
    /\ TrimmedLen(raw) <= MaxInputLen
    /\ raw[1] = " "
    /\ messy_text[1] = " "
    /\ TruncationFlagged

-----------------------------------------------------------------------------
(* C6: where the generated text of an HTTP 200 body comes from.  As        *)
(* claimed (C6_UnrecognizedNeverModel): a body that is neither a sequence  *)
(* of objects nor an object with generated_text never yields the model's   *)
(* text.  As amended (C6_GeneratedTextSource): a non-empty list gives the  *)
(* generated_text of its first object ("" when it has none), an object     *)
(* with generated_text gives it, and any other body gives str(body), which *)
(* is validated like any generated text and returned when accepted.        *)

RecognizedShape(b) ==
    \/ /\ b.t = "list"
       /\ Len(b.items) > 0
       /\ \A i \in 1..Len(b.items) : b.items[i].t = "dict"
    \/ /\ b.t = "dict"
       /\ HasKey(b, KeyGeneratedText)

C6_UnrecognizedNeverModel ==
    (HttpOkBody /\ ~ RecognizedShape(outcome.body) /\ pc = "Done") =>
        Provenance = "Fallback"

\* the conversion got as far as the quality test of line 207
ValidationRan == pc = "Validated" \/ ret.site \in {"209", "211"}

C6_GeneratedTextSource ==
    /\ ValidationRan =>
          response = CleanResponse(
              IF result.t = "list" /\ Len(result.items) > 0
              THEN IF HasKey(result.items[1], KeyGeneratedText)
                   THEN Get(result.items[1], KeyGeneratedText).s
                   ELSE <<>>
              ELSE IF result.t = "dict" /\ HasKey(result, KeyGeneratedText)
              THEN Get(result, KeyGeneratedText).s
              ELSE PyStr(result))
    /\ (HttpOkBody /\ pc = "Done" /\ outcome.body.t \in {"str", "dict", "list"}
          /\ NoErrorMember(outcome.body)
          /\ ~ (outcome.body.t = "list" /\ Len(outcome.body.items) > 0)
          /\ ~ (outcome.body.t = "dict" /\ HasKey(outcome.body, KeyGeneratedText))) =>
          /\ ValidationRan
          /\ ret.site = "211" <=>
                /\ Len(CleanResponse(PyStr(outcome.body))) >= MinResponseLen
                /\ HasMarker(CleanResponse(PyStr(outcome.body)))

\* an object without generated_text came back as the model's text
C6_Witness ==
    /\ pc = "Done"
    /\ ret.site = "211"
    /\ HttpOkBody
    /\ outcome.body.t = "dict"
    /\ ~ HasKey(outcome.body, KeyGeneratedText)
    /\ ret.text = PyStr(outcome.body)

-----------------------------------------------------------------------------
(* C7: the candidate is the trimmed text after the last marker, Output: or *)
(* Input:, of the generated text; it is accepted if and only if it has at  *)
(* least 20 characters and one of # * -; a rejected candidate sends the    *)
(* conversion to the fallback synthesizer with a warning.                  *)

SetMax(S) == CHOOSE m \in S : \A k \in S : m >= k

AfterLastMarker(text) ==
    LET ends == {i + Len(m) - 1 : i \in Occurrences(text, OutputMarker), m \in {OutputMarker}}
                  \cup {i + Len(m) - 1 : i \in Occurrences(text, InputMarker), m \in {InputMarker}}
    IN  IF ends = {} THEN text ELSE SubSeq(text, SetMax(ends) + 1, Len(text))

C7_ValidatorVerdict ==
    ValidationRan =>
        /\ response = strip(AfterLastMarker(ExtractGenerated(result).v.s))
        /\ ret.site = "211" =>
              /\ Len(response) >= MinResponseLen
              /\ HasMarker(response)
              /\ ret.text = response
              /\ fallbacks = 0
        /\ ret.site = "209" =>
              /\ Len(response) < MinResponseLen \/ ~ HasMarker(response)
              /\ fallbacks = 1
              /\ Provenance = "Fallback"
              /\ HasSummary(ret.notes)
              /\ ui[Len(ui)] = IncompleteWarning

\* a candidate of 20 characters and more was rejected for want of a marker,
\* after text before an Output: marker was cut away
C7_Witness ==
    /\ pc = "Done"
    /\ ret.site = "209"
    /\ Len(response) >= MinResponseLen
    /\ Contains(ExtractGenerated(result).v.s, OutputMarker)

\* a candidate of exactly 20 characters was accepted
C7_WitnessAccepted ==
    /\ pc = "Done"
    /\ ret.site = "211"
    /\ Len(response) = MinResponseLen

-----------------------------------------------------------------------------
(* C8: create_fallback_notes is total on strings: for every str, the empty *)
(* one, a blank one and a single character included, it returns a         *)
(* non-empty note that has the Summary header.                            *)

-----------------------------------------------------------------------------
(* C9: the fallback note has an Action Items section if and only if the    *)
(* lowercased text contains one of need, should, must, todo, action,       *)
(* follow up, complete; the section is its header and the three fixed      *)
(* bullets, and it ends the note.                                          *)

C9_Keywords ==
    { <<"n", "e", "e", "d">>, <<"s", "h", "o", "u", "l", "d">>, <<"m", "u", "s", "t">>, <<"t", "o", "d", "o">>, <<"a", "c", "t", "i", "o", "n">>, <<"f", "o", "l", "l", "o", "w", " ", "u", "p">>, <<"c", "o", "m", "p", "l", "e", "t", "e">> }

C9_ActionSection ==
    << NoteLine("\n## Action Items\n", 0, <<>>),
       NoteLine("- Review and organize the above points\n", 0, <<>>),
       NoteLine("- Follow up on any mentioned tasks\n", 0, <<>>),
       NoteLine("- Add more details where needed\n", 0, <<>>) >>

C9_ActionItemsIffKeyword ==
    pc = "FallbackDone" =>
        LET n == Len(ret.notes)
            headers == {i \in 1..n : ret.notes[i].lit = "\n## Action Items\n"}
        IN  IF \E k \in C9_Keywords : Contains(lower(raw), k)
            THEN /\ headers = {n - 3}
                 /\ SubSeq(ret.notes, n - 3, n) = C9_ActionSection
            ELSE /\ headers = {}
                 /\ \A i \in 1..n : \A j \in 1..4 : ret.notes[i].lit # C9_ActionSection[j].lit

\* a keyword found only once the text is lowercased gave the section
C9_Witness ==
    /\ pc = "FallbackDone"
    /\ Contains(lower(raw), <<"n", "e", "e", "d">>)
    /\ ~ \E k \in C9_Keywords : Contains(raw, k)
    /\ \E i \in 1..Len(ret.notes) : ret.notes[i].lit = "\n## Action Items\n"

\* follow and up on two lines are no keyword, and gave no section
C9_WitnessAbsent ==
    /\ pc = "FallbackDone"
    /\ Contains(raw, <<"f", "o", "l", "l", "o", "w", "\n", "u", "p">>)
    /\ ~ \E i \in 1..Len(ret.notes) : ret.notes[i].lit = "\n## Action Items\n"

-----------------------------------------------------------------------------
(* C10: one conversion is one forward pass.  Every step moves to a later   *)
(* stage; the request is issued in the step from Sanitized to              *)
(* RemoteAttempted and in no other, so once when the input passes and      *)
(* never otherwise; validation follows only an HTTP 200 answer that        *)
(* carries no error; the fallback synthesizer runs at most once.           *)

StageRank(p) ==
    CASE p = "Start" -> 0
      [] p = "Sanitized" -> 1
      [] p = "RemoteAttempted" -> 2
      [] p = "Validated" -> 3
      [] p = "FallbackUsed" -> 4
      [] p \in {"Done", "Raised"} -> 5

C10_Step ==
    /\ StageRank(pc') > StageRank(pc)
    /\ queries' = IF pc = "Sanitized" THEN queries + 1 ELSE queries
    /\ queries' <= 1
    /\ fallbacks' <= 1
    /\ fallbacks' # fallbacks => pc' = "FallbackUsed"
    /\ pc' = "Sanitized" => pc = "Start" /\ TrimmedLen(raw) >= MinInputLen
    /\ pc' = "RemoteAttempted" => pc = "Sanitized"
    /\ pc' = "Validated" => pc = "RemoteAttempted" /\ ~ RemoteFailed' /\ queries' = 1
    /\ pc' \in {"Done", "Raised"} =>
          queries' = IF TrimmedLen(raw) >= MinInputLen THEN 1 ELSE 0

C10_OnePass == [][C10_Step]_vars

\* a rejected answer went on to the fallback and to the end: one request, one
\* fallback note
C10_Witness ==
    /\ pc = "Done"
    /\ ret.site = "209"
    /\ queries = 1
    /\ fallbacks = 1

-----------------------------------------------------------------------------
(* C11: in every fallback note the item count of the Summary section is    *)
(* min(number of non-empty lines, 8), 8 being the cap on the lines taken   *)
(* into Key Points.                                                        *)
(* The code breaks this: line 228 caps the count at 10, line 235 the lines *)
(* at 8; see C11_CountAboveKeyLineCap.                                     *)

NonEmptyLines(text) == StrippedNonEmpty(split(text, << "\n" >>))

ItemCounts(notes) ==
    {notes[i].num : i \in {j \in 1..Len(notes) :
                              notes[j].lit = "- Organized into {} main items\n"}}

C11_ItemCountIsKeyLineCap ==
    pc = "FallbackDone" =>
        ItemCounts(ret.notes) = {Min(Len(NonEmptyLines(raw)), KeyLineCap)}

\* nine non-empty lines are reported as 9 main items
C11_CountAboveKeyLineCap ==
    /\ pc = "FallbackDone"
    /\ Len(NonEmptyLines(raw)) = KeyLineCap + 1
    /\ ItemCounts(ret.notes) = {KeyLineCap + 1}

-----------------------------------------------------------------------------
(* C12: the Key Points section lists, of the first 8 non-empty lines,      *)
(* those longer than 10 characters, numbered by their place among the      *)
(* lines; when none of them is that long it lists instead, unnumbered, of  *)
(* the first 6 sentences those longer than 15 characters.                  *)
(* The code breaks this: line 234 takes the sentences only when there is   *)
(* no line at all, and then there is no sentence either; see               *)
(* C12_NoSentenceFallback.                                                 *)

Sentences(text) == StrippedNonEmpty(split(text, << "." >>))

KeyPointItems(notes) ==
    SelectSeq(notes, LAMBDA l : l.lit \in {"{}.** {}\n\n", "- {}.\n"})

UsableLines(text) ==
    LET lines == NonEmptyLines(text)
    IN  SelectSeq([i \in 1..Min(Len(lines), KeyLineCap) |->
                      NoteLine("{}.** {}\n\n", i, lines[i])],
                  LAMBDA l : Len(l.txt) > MinLineLen)

UsableSentences(text) ==
    LET sentences == Sentences(text)
    IN  SelectSeq([i \in 1..Min(Len(sentences), SentenceCap) |->
                      NoteLine("- {}.\n", 0, sentences[i])],
                  LAMBDA l : Len(l.txt) > MinSentenceLen)

C12_KeyPointsLinesOrSentences ==
    pc = "FallbackDone" =>
        KeyPointItems(ret.notes) =
            IF UsableLines(raw) # <<>> THEN UsableLines(raw) ELSE UsableSentences(raw)

\* short lines that make up a sentence of more than 15 characters: the section
\* is empty
C12_NoSentenceFallback ==
    /\ pc = "FallbackDone"
    /\ NonEmptyLines(raw) # <<>>
    /\ UsableLines(raw) = <<>>
    /\ UsableSentences(raw) # <<>>
    /\ KeyPointItems(ret.notes) = <<>>

====
